---- MODULE Spec2Model ----
(***************************************************************************)
(* Demo-recording helpers of worktrunk: docs/demos/lib.py (DemoEnv, run,   *)
(* git, render_tape, record_vhs, build_wt) and docs/demos/shared/themes.py *)
(* (LIGHT_THEME, DARK_THEME, THEMES, format_theme_for_vhs).                *)
(*                                                                         *)
(* A state holds one library call with its arguments (call), the world the *)
(* call acts on (files, printed lines, spawned child processes, the        *)
(* DemoEnv object) and what the last call gave back (ret, exc).  Python    *)
(* strings are TLA+ strings, taken apart with Len, SubSeq and \o.          *)
(***************************************************************************)
EXTENDS FiniteSets, Integers, Sequences, TLC

VARIABLES call, fs, stdout, procs, denv, ret, exc

vars == <<call, fs, stdout, procs, denv, ret, exc>>

-----------------------------------------------------------------------------
(* Bounds of the explored inputs.                                          *)

\* pieces a template is put together from
MaxPieces == 2
\* calls after which the logs (printed lines, child processes) stop growing
MaxCalls == 2

-----------------------------------------------------------------------------
(* Python values.  A value is a str or an int; None, True and False are    *)
(* values of their own kinds.                                              *)

PyS(s) == [t |-> "str", v |-> s]
PyI(n) == [t |-> "int", v |-> n]
PyB(b) == [t |-> "bool", v |-> b]
PyNone == [t |-> "None", v |-> 0]
NoExc == [type |-> "none"]

Digit(d) == SubSeq("0123456789", d + 1, d + 1)

RECURSIVE NatStr(_)
NatStr(n) == IF n < 10 THEN Digit(n) ELSE NatStr(n \div 10) \o Digit(n % 10)

\* str(value) for the value kinds that reach render_tape.
PyStr(x) ==
    IF x.t = "str" THEN x.v
    ELSE IF x.t = "int" THEN (IF x.v < 0 THEN "-" \o NatStr(0 - x.v) ELSE NatStr(x.v))
    ELSE IF x.t = "bool" THEN (IF x.v THEN "True" ELSE "False")
    ELSE "None"

-----------------------------------------------------------------------------
(* str.replace(old, new): every non-overlapping occurrence of old, found   *)
(* left to right, is replaced; an empty old matches before every character *)
(* and at the end.                                                         *)

StartsAt(s, old, i) == i + Len(old) - 1 <= Len(s) /\ SubSeq(s, i, i + Len(old) - 1) = old

\* least match position >= i, or 0 when there is none
Find(s, old, i) ==
    LET hits == {j \in i..Len(s) : StartsAt(s, old, j)}
    IN IF hits = {} THEN 0 ELSE CHOOSE j \in hits : \A k \in hits : j <= k

RECURSIVE ReplaceFrom(_, _, _, _)
ReplaceFrom(s, old, new, i) ==
    LET j == Find(s, old, i)
    IN IF j = 0 THEN SubSeq(s, i, Len(s))
       ELSE SubSeq(s, i, j - 1) \o new \o ReplaceFrom(s, old, new, j + Len(old))

RECURSIVE Interleave(_, _, _)
Interleave(s, new, i) ==
    IF i > Len(s) THEN new ELSE new \o SubSeq(s, i, i) \o Interleave(s, new, i + 1)

\* str.replace(old, new, 1): only the first occurrence
StrReplace_first(s, old, new) ==
    LET j == Find(s, old, 1)
    IN IF j = 0 THEN s
       ELSE SubSeq(s, 1, j - 1) \o new \o SubSeq(s, j + Len(old), Len(s))

StrReplace(s, old, new) ==
    IF old = "" THEN Interleave(s, new, 1) ELSE ReplaceFrom(s, old, new, 1)

\* f"{{{key}}}": one brace on each side
Token_single(key) == "{" \o PyStr(key) \o "}"

\* f"{{{{{key}}}}}"
Token(key) == "{{" \o PyStr(key) \o "}}"

\* the loop left after its first pair
RenderLoop_firstpair(rendered, items, k) ==
    IF k > Len(items) THEN rendered
    ELSE StrReplace(rendered, Token(items[k].key), PyStr(items[k].value))

\* the loop run a second time over the text of the first run
RECURSIVE RenderLoop_once(_, _, _)
RenderLoop_once(rendered, items, k) ==
    IF k > Len(items) THEN rendered
    ELSE RenderLoop_once(StrReplace(rendered, Token(items[k].key), PyStr(items[k].value)),
                         items, k + 1)

RenderLoop_twice(rendered, items, k) ==
    RenderLoop_once(RenderLoop_once(rendered, items, k), items, 1)

\* the for loop of render_tape over replacements.items(), from pair k on
RECURSIVE RenderLoop(_, _, _)
RenderLoop(rendered, items, k) ==
    IF k > Len(items) THEN rendered
    ELSE RenderLoop(StrReplace(rendered, Token(items[k].key), PyStr(items[k].value)),
                    items, k + 1)

-----------------------------------------------------------------------------
(* Files.  A path holds a text file or nothing.                            *)

NoFile == [exists |-> FALSE, text |-> ""]
File(text) == [exists |-> TRUE, text |-> text]

TemplatePath == "demo.tape.tmpl"
TapePaths == {TemplatePath, "demo.tape"}

-----------------------------------------------------------------------------
(* Inputs of render_tape.                                                  *)

Pieces == {"{{X}}", "{{Y}}", "{{", "}}", "Y}}"}

RECURSIVE Concat(_)
Concat(ps) == IF ps = <<>> THEN "" ELSE Head(ps) \o Concat(Tail(ps))

HelloTemplate == "hello {{X}} {{Y}}"

Templates ==
    {Concat(ps) : ps \in UNION {[1..n -> Pieces] : n \in 0..MaxPieces}} \cup {HelloTemplate}

Keys == {PyS("X"), PyS("Y"), PyS("Z")}
Values == {PyI(42), PyS(""), PyS("{{Y}}"), PyS("{{"), PyS("X")}

HelloMapping == <<[key |-> PyS("X"), value |-> PyS("world")], [key |-> PyS("Y"), value |-> PyI(42)]>>

\* dicts in iteration order: sequences of pairs with pairwise distinct keys
Mappings ==
    {m \in UNION {[1..n -> [key : Keys, value : Values]] : n \in 0..Cardinality(Keys)} :
        \A i, j \in DOMAIN m : i # j => m[i].key # m[j].key}
    \cup {HelloMapping}

-----------------------------------------------------------------------------
(* pathlib paths: a root ("", "/" or "//") and the name components.        *)

Ch(s, i) == SubSeq(s, i, i)

KeepPart(c) == IF c = "" \/ c = "." THEN <<>> ELSE <<c>>

RECURSIVE SplitParts(_, _, _)
SplitParts(s, i, cur) ==
    IF i > Len(s) THEN KeepPart(cur)
    ELSE IF Ch(s, i) = "/" THEN KeepPart(cur) \o SplitParts(s, i + 1, "")
    ELSE SplitParts(s, i + 1, cur \o Ch(s, i))

\* Path(s)
PathOf(s) ==
    [root |-> IF StartsAt(s, "//", 1) /\ ~StartsAt(s, "///", 1) THEN "//"
              ELSE IF StartsAt(s, "/", 1) THEN "/"
              ELSE "",
     parts |-> SplitParts(s, 1, "")]

\* p / s : an absolute right operand replaces the left one
Join(p, s) ==
    LET q == PathOf(s)
    IN IF q.root # "" THEN q ELSE [root |-> p.root, parts |-> p.parts \o q.parts]

RECURSIVE JoinParts(_)
JoinParts(ps) ==
    IF ps = <<>> THEN ""
    ELSE IF Len(ps) = 1 THEN ps[1]
    ELSE ps[1] \o "/" \o JoinParts(Tail(ps))

\* str(path)
PathStr(p) == IF p.root = "" /\ p.parts = <<>> THEN "." ELSE p.root \o JoinParts(p.parts)

PyP(p) == [t |-> "Path", v |-> p]

-----------------------------------------------------------------------------
(* DemoEnv: three stored attributes, five computed properties.             *)

DemoEnv(name, out_dir, repo_name) ==
    [name |-> name, out_dir |-> out_dir, repo_name |-> repo_name]

root(self) == Join(self.out_dir, ".demo-" \o self.name)
home(self) == root(self)
work_base(self) == Join(home(self), "w")
\* repo with the default name in place of self.repo_name
repo_default(self) == Join(work_base(self), "worktrunk")
repo(self) == Join(work_base(self), self.repo_name)
bare_remote(self) == Join(root(self), "remote.git")

Properties == {"root", "home", "work_base", "repo", "bare_remote"}

Property(self, p) ==
    CASE p = "root" -> root(self)
      [] p = "home" -> home(self)
      [] p = "work_base" -> work_base(self)
      [] p = "repo" -> repo(self)
      [] p = "bare_remote" -> bare_remote(self)

Names == {"basic", "", "a/b", "."}
OutDirs == {PathOf("/tmp/out"), PathOf("out"), PathOf(".")}
RepoNames == {"worktrunk", "acme", "/srv/repo", "x/./y"}

DefaultEnv == DemoEnv("basic", PathOf("out"), "worktrunk")

-----------------------------------------------------------------------------
(* Child processes.  subprocess.run waits for the child; with check it     *)
(* raises CalledProcessError(returncode, cmd) on a non-zero exit.          *)

ExitCodes == {0, 1, 2}
ChildOutputs == {"", "ok\n"}

Commands == {<<"true">>, <<"wt", "list">>}
GitArgs == {<<"init">>, <<"commit", "-m", "x">>}
Cwds == {PyNone, PyP(PathOf("/tmp/out/.demo-basic/w/worktrunk"))}
Envs == {PyNone, PyS("HOME=/tmp/out/.demo-basic")}
VhsBinaries == {"vhs", "/opt/vhs/bin/vhs"}
TapeFiles == {PathOf("demo.tape"), PathOf("/tmp/out/./demo.tape")}
RepoRoots == {PathOf("/src/worktrunk"), PathOf(".")}

\* run that never looks at the exit code
run_unchecked(cmd, cwd, env, check, capture) ==
    \E code \in ExitCodes, out \in ChildOutputs :
       /\ procs' = Append(procs, [cmd |-> cmd, cwd |-> cwd, env |-> env, check |-> check,
                                  capture |-> capture, returncode |-> code])
       /\ exc' = NoExc
       /\ ret' = IF capture THEN PyS(out) ELSE PyNone

run(cmd, cwd, env, check, capture) ==
    \E code \in ExitCodes, out \in ChildOutputs :
       /\ procs' = Append(procs, [cmd |-> cmd, cwd |-> cwd, env |-> env, check |-> check,
                                  capture |-> capture, returncode |-> code])
       /\ IF check /\ code # 0
          THEN /\ exc' = [type |-> "CalledProcessError", returncode |-> code, cmd |-> cmd]
               /\ ret' = PyNone
          ELSE /\ exc' = NoExc
               /\ ret' = IF capture THEN PyS(out) ELSE PyNone

-----------------------------------------------------------------------------
(* Themes: dicts in insertion order, as sequences of key/value pairs.      *)

P(k, v) == [key |-> k, value |-> v]

LIGHT_THEME ==
    << P("name", "Warm Gold Light"),
       P("black", "#8c959f"),
       P("red", "#d73a49"),
       P("green", "#22863a"),
       P("yellow", "#d29922"),
       P("blue", "#0969da"),
       P("magenta", "#8250df"),
       P("cyan", "#1b7c83"),
       P("white", "#8c959f"),
       P("brightBlack", "#8c959f"),
       P("brightRed", "#cb2431"),
       P("brightGreen", "#2ea043"),
       P("brightYellow", "#f2cc60"),
       P("brightBlue", "#218bff"),
       P("brightMagenta", "#a475f9"),
       P("brightCyan", "#39c5cf"),
       P("brightWhite", "#8c959f"),
       P("background", "#FFFBF0"),
       P("foreground", "#1f2328"),
       P("cursor", "#d97706"),
       P("selection", "#FFF0C8") >>

\* the dark table with a digit lost in its last value
DARK_THEME_typo ==
    << P("name", "Warm Workbench Dark"),
       P("black", "#6b7280"),
       P("red", "#f87171"),
       P("green", "#4ade80"),
       P("yellow", "#fbbf24"),
       P("blue", "#60a5fa"),
       P("magenta", "#c084fc"),
       P("cyan", "#67d4d4"),
       P("white", "#a8a29e"),
       P("brightBlack", "#6b7280"),
       P("brightRed", "#fca5a5"),
       P("brightGreen", "#86efac"),
       P("brightYellow", "#fde047"),
       P("brightBlue", "#93c5fd"),
       P("brightMagenta", "#d8b4fe"),
       P("brightCyan", "#a5f3fc"),
       P("brightWhite", "#e8e6e3"),
       P("background", "#1c1b1a"),
       P("foreground", "#e8e6e3"),
       P("cursor", "#f59e0b"),
       P("selection", "#42200") >>

DARK_THEME ==
    << P("name", "Warm Workbench Dark"),
       P("black", "#6b7280"),
       P("red", "#f87171"),
       P("green", "#4ade80"),
       P("yellow", "#fbbf24"),
       P("blue", "#60a5fa"),
       P("magenta", "#c084fc"),
       P("cyan", "#67d4d4"),
       P("white", "#a8a29e"),
       P("brightBlack", "#6b7280"),
       P("brightRed", "#fca5a5"),
       P("brightGreen", "#86efac"),
       P("brightYellow", "#fde047"),
       P("brightBlue", "#93c5fd"),
       P("brightMagenta", "#d8b4fe"),
       P("brightCyan", "#a5f3fc"),
       P("brightWhite", "#e8e6e3"),
       P("background", "#1c1b1a"),
       P("foreground", "#e8e6e3"),
       P("cursor", "#f59e0b"),
       P("selection", "#422006") >>

THEMES == [light |-> LIGHT_THEME, dark |-> DARK_THEME]

\* json.dumps of a str: quotes and backslashes are escaped, a newline is \n
RECURSIVE JsonEscape(_, _)
JsonEscape(s, i) ==
    IF i > Len(s) THEN ""
    ELSE LET c == Ch(s, i)
         IN (IF c = "\"" THEN "\\\""
             ELSE IF c = "\\" THEN "\\\\"
             ELSE IF c = "\n" THEN "\\n"
             ELSE c) \o JsonEscape(s, i + 1)

\* repr(s) in place of the JSON string
JsonStr_repr(s) == "'" \o s \o "'"
JsonStr(s) == "\"" \o JsonEscape(s, 1) \o "\""

\* the members of the object, joined by ", ", each as "key": "value"
RECURSIVE JsonMembers(_, _)
JsonMembers(theme, k) ==
    IF k > Len(theme) THEN ""
    ELSE (IF k > 1 THEN ", " ELSE "")
         \o JsonStr(theme[k].key) \o ": " \o JsonStr(theme[k].value)
         \o JsonMembers(theme, k + 1)

\* json.dumps(theme)
format_theme_for_vhs(theme) == "{" \o JsonMembers(theme, 1) \o "}"

CustomKeys == {"name", "q\"k"}
CustomValues == {"#d73a49", "Warm \"Gold\"", "C:\\themes", ""}

CustomThemes ==
    {m \in UNION {[1..n -> [key : CustomKeys, value : CustomValues]] : n \in 0..2} :
        \A i, j \in DOMAIN m : i # j => m[i].key # m[j].key}

-----------------------------------------------------------------------------
(* Initial states: one call with its arguments, and the world it meets.    *)

Quiet ==
    /\ stdout = <<>>
    /\ procs = <<>>
    /\ ret = PyNone
    /\ exc = NoExc

NoFiles == [p \in TapePaths |-> NoFile]

Init_render_tape ==
    /\ \E op \in TapePaths, m \in Mappings :
          call = [op |-> "render_tape", template_path |-> TemplatePath, output_path |-> op,
                  replacements |-> m]
    /\ \E t \in Templates, there \in BOOLEAN, old \in {NoFile, File("old")} :
          fs = [p \in TapePaths |->
                  IF p = call.template_path
                  THEN (IF there THEN File(t) ELSE NoFile)
                  ELSE old]
    /\ denv = DefaultEnv
    /\ Quiet

Init_run ==
    /\ \E cmd \in Commands, cwd \in Cwds, env \in Envs, check \in BOOLEAN, capture \in BOOLEAN :
          call = [op |-> "run", cmd |-> cmd, cwd |-> cwd, env |-> env,
                  check |-> check, capture |-> capture]
    /\ fs = NoFiles /\ denv = DefaultEnv /\ Quiet

Init_git ==
    /\ \E args \in GitArgs, cwd \in Cwds, env \in Envs :
          call = [op |-> "git", args |-> args, cwd |-> cwd, env |-> env]
    /\ fs = NoFiles /\ denv = DefaultEnv /\ Quiet

Init_record_vhs ==
    /\ \E tape \in TapeFiles, bin \in VhsBinaries :
          call = [op |-> "record_vhs", tape_path |-> tape, vhs_binary |-> bin]
    /\ fs = NoFiles /\ denv = DefaultEnv /\ Quiet

Init_build_wt ==
    /\ \E rr \in RepoRoots : call = [op |-> "build_wt", repo_root |-> rr]
    /\ fs = NoFiles /\ denv = DefaultEnv /\ Quiet

Init_DemoEnv ==
    /\ call = [op |-> "DemoEnv", access |-> "__init__"]
    /\ \E n \in Names, o \in OutDirs :
          denv \in {DemoEnv(n, o, "worktrunk")} \cup {DemoEnv(n, o, r) : r \in RepoNames}
    /\ fs = NoFiles /\ Quiet

Init_format_theme_for_vhs ==
    /\ \E theme \in {THEMES[n] : n \in DOMAIN THEMES} \cup CustomThemes :
          call = [op |-> "format_theme_for_vhs", theme |-> theme]
    /\ fs = NoFiles /\ denv = DefaultEnv /\ Quiet

Init ==
    \/ Init_render_tape
    \/ Init_run
    \/ Init_git
    \/ Init_record_vhs
    \/ Init_build_wt
    \/ Init_DemoEnv
    \/ Init_format_theme_for_vhs

-----------------------------------------------------------------------------
(* The calls.                                                              *)

\* calls made so far that left a line or a child process in the logs
CallsMade == IF call.op = "render_tape" THEN Len(stdout) ELSE Len(procs)

\* a check that never fails
PathExists_always(path) == TRUE

\* template_path.exists()
PathExists(path) == fs[path].exists

render_tape ==
    /\ call.op = "render_tape"
    /\ CallsMade < MaxCalls
    /\ exc' = NoExc
    /\ IF ~PathExists(call.template_path)
       THEN /\ stdout' = Append(stdout, "Warning: " \o call.template_path
                                         \o " not found, skipping VHS recording")
            /\ ret' = PyB(FALSE)
            /\ fs' = fs
       ELSE /\ fs' = [fs EXCEPT ![call.output_path] =
                        File(RenderLoop(fs[call.template_path].text, call.replacements, 1))]
            /\ ret' = PyB(TRUE)
            /\ stdout' = stdout
    /\ UNCHANGED <<call, procs, denv>>

call_run ==
    /\ call.op = "run"
    /\ CallsMade < MaxCalls
    /\ run(call.cmd, call.cwd, call.env, call.check, call.capture)
    /\ UNCHANGED <<call, fs, stdout, denv>>

\* git with the exit code check switched off
git_unchecked ==
    /\ call.op = "git"
    /\ CallsMade < MaxCalls
    /\ run(<<"git">> \o call.args, call.cwd, call.env, FALSE, FALSE)
    /\ UNCHANGED <<call, fs, stdout, denv>>

git ==
    /\ call.op = "git"
    /\ CallsMade < MaxCalls
    /\ run(<<"git">> \o call.args, call.cwd, call.env, TRUE, FALSE)
    /\ UNCHANGED <<call, fs, stdout, denv>>

record_vhs ==
    /\ call.op = "record_vhs"
    /\ CallsMade < MaxCalls
    /\ run(<<call.vhs_binary, PathStr(call.tape_path)>>, PyNone, PyNone, TRUE, FALSE)
    /\ UNCHANGED <<call, fs, stdout, denv>>

build_wt ==
    /\ call.op = "build_wt"
    /\ CallsMade < MaxCalls
    /\ stdout' = Append(stdout, "Building wt binary...")
    /\ run(<<"cargo", "build", "--quiet">>, PyP(call.repo_root), PyNone, TRUE, FALSE)
    /\ UNCHANGED <<call, fs, denv>>

\* reading one of the computed properties of the DemoEnv object
DemoEnv_get ==
    /\ call.op = "DemoEnv"
    /\ \E p \in Properties :
          /\ call' = [op |-> "DemoEnv", access |-> p]
          /\ ret' = PyP(Property(denv, p))
    /\ UNCHANGED <<fs, stdout, procs, denv, exc>>

\* assigning one of the stored attributes (the dataclass is not frozen)
DemoEnv_set ==
    /\ call.op = "DemoEnv"
    /\ \/ \E n \in Names : denv' = [denv EXCEPT !.name = n] /\ call' = [op |-> "DemoEnv", access |-> "name"]
       \/ \E o \in OutDirs : denv' = [denv EXCEPT !.out_dir = o] /\ call' = [op |-> "DemoEnv", access |-> "out_dir"]
       \/ \E r \in RepoNames : denv' = [denv EXCEPT !.repo_name = r] /\ call' = [op |-> "DemoEnv", access |-> "repo_name"]
    /\ ret' = PyNone
    /\ UNCHANGED <<fs, stdout, procs, exc>>

call_format_theme_for_vhs ==
    /\ call.op = "format_theme_for_vhs"
    /\ CallsMade < MaxCalls
    /\ ret' = PyS(format_theme_for_vhs(call.theme))
    /\ exc' = NoExc
    /\ UNCHANGED <<call, fs, stdout, procs, denv>>

Next ==
    \/ render_tape
    \/ call_run
    \/ git
    \/ record_vhs
    \/ build_wt
    \/ DemoEnv_get
    \/ DemoEnv_set
    \/ call_format_theme_for_vhs

Spec == Init /\ [][Next]_vars

-----------------------------------------------------------------------------
(* Properties of render_tape.  The reference operators below state what a  *)
(* rendering is meant to be, independently of how StrReplace and           *)
(* RenderLoop compute it.                                                  *)

\* s with every occurrence of tok (left to right, not overlapping) replaced by v
RECURSIVE ReplaceAll(_, _, _)
ReplaceAll(s, tok, v) ==
    IF s = "" THEN ""
    ELSE IF Len(tok) <= Len(s) /\ SubSeq(s, 1, Len(tok)) = tok
         THEN v \o ReplaceAll(SubSeq(s, Len(tok) + 1, Len(s)), tok, v)
         ELSE SubSeq(s, 1, 1) \o ReplaceAll(SubSeq(s, 2, Len(s)), tok, v)

\* the template folded left over the pairs of m
RECURSIVE FoldLeft(_, _)
FoldLeft(t, m) ==
    IF m = <<>> THEN t
    ELSE LET last == m[Len(m)]
         IN ReplaceAll(FoldLeft(t, SubSeq(m, 1, Len(m) - 1)),
                       "{{" \o PyStr(last.key) \o "}}", PyStr(last.value))

\* the steps of a render_tape call, by what the call finds at template_path
RenderMissing == call.op = "render_tape" /\ ~fs[call.template_path].exists
RenderExisting == call.op = "render_tape" /\ fs[call.template_path].exists

TemplateText == fs[call.template_path].text
OutputText == fs'[call.output_path].text

\* C1: a render_tape call whose template_path does not exist returns False,
\* leaves every file (output_path included) as it was, prints exactly one
\* warning and raises nothing.
C1_MissingTemplate ==
    [][RenderMissing =>
          /\ ret' = PyB(FALSE)
          /\ fs' = fs
          /\ Len(stdout') = Len(stdout) + 1
          /\ exc' = NoExc]_vars

\* a missing template met an output file that already existed, and the file is still there
C1_Witness ==
    /\ call.op = "render_tape"
    /\ ret = PyB(FALSE)
    /\ Len(stdout) = 1
    /\ ~fs[call.template_path].exists
    /\ fs[call.output_path] = File("old")

\* C2: a render_tape call on an existing template returns True and writes to
\* output_path the template folded left over the mapping in iteration order,
\* each step replacing every occurrence of '{{key}}' by str(value); the
\* template 'hello {{X}} {{Y}}' with {X: 'world', Y: 42} gives 'hello world 42'.
C2_FoldLeft ==
    [][RenderExisting =>
          /\ ret' = PyB(TRUE)
          /\ exc' = NoExc
          /\ fs'[call.output_path] = File(FoldLeft(TemplateText, call.replacements))
          /\ \A p \in TapePaths \ {call.output_path} : fs'[p] = fs[p]
          /\ (TemplateText = HelloTemplate /\ call.replacements = HelloMapping)
                => OutputText = "hello world 42"]_vars

\* the documented example has been rendered
C2_Witness ==
    /\ call.op = "render_tape"
    /\ ret = PyB(TRUE)
    /\ call.replacements = HelloMapping
    /\ call.template_path # call.output_path
    /\ fs[call.template_path] = File(HelloTemplate)
    /\ fs[call.output_path] = File("hello world 42")

\* number of places of s where tok starts
Count(tok, s) == Cardinality({i \in 1..Len(s) : StartsAt(s, tok, i)})
Occurs(tok, s) == Count(tok, s) > 0

HasBrace(s) == Occurs("{", s) \/ Occurs("}", s)

\* the placeholder names a template may mention
NameUniverse == Keys
KeysOf(m) == {m[i].key : i \in DOMAIN m}

\* m without its i-th pair
Without(m, i) == SubSeq(m, 1, i - 1) \o SubSeq(m, i + 1, Len(m))

\* C3 (as claimed): every token '{{Z}}' of the template whose name has no
\* entry in the mapping is still in the output, and a key whose token does not
\* occur in the template changes nothing: the output is the rendering without it.
C3_Original ==
    [][RenderExisting =>
          /\ \A z \in NameUniverse \ KeysOf(call.replacements) :
                Count(Token(z), OutputText) >= Count(Token(z), TemplateText)
          /\ \A i \in DOMAIN call.replacements :
                ~Occurs(Token(call.replacements[i].key), TemplateText)
                   => OutputText = FoldLeft(TemplateText, Without(call.replacements, i))]_vars

\* C3 (amended): placeholder names being free of braces, every token '{{Z}}'
\* of the template whose name has no entry in the mapping is still in the
\* output; and a key whose token does not occur in the text its pair is applied
\* to (the template after the earlier pairs) changes nothing: the output is the
\* rendering without that key.
C3_Amended ==
    [][RenderExisting =>
          /\ (\A k \in KeysOf(call.replacements) : ~HasBrace(PyStr(k)))
                => \A z \in NameUniverse \ KeysOf(call.replacements) :
                      ~HasBrace(PyStr(z))
                         => Count(Token(z), OutputText) >= Count(Token(z), TemplateText)
          /\ \A i \in DOMAIN call.replacements :
                ~Occurs(Token(call.replacements[i].key),
                        FoldLeft(TemplateText, SubSeq(call.replacements, 1, i - 1)))
                   => OutputText = FoldLeft(TemplateText, Without(call.replacements, i))]_vars

\* a template with the token {{Y}} only was rendered with a mapping that has
\* X and not Y: {{Y}} is in the output and X changed nothing
C3_Witness ==
    /\ call.op = "render_tape"
    /\ ret = PyB(TRUE)
    /\ call.template_path # call.output_path
    /\ KeysOf(call.replacements) = {PyS("X")}
    /\ fs[call.template_path].text = "{{Y}}}}"
    /\ fs[call.output_path].text = "{{Y}}}}"

\* the orderings of a mapping
Orderings(m) ==
    {[i \in DOMAIN m |-> m[f[i]]] :
        f \in {g \in [DOMAIN m -> DOMAIN m] : \A i, j \in DOMAIN m : i # j => g[i] # g[j]}}

\* no replacement value contains the token of another key of the mapping
NoValueHoldsToken(m) ==
    \A i, j \in DOMAIN m : i # j => ~Occurs(Token(m[j].key), PyStr(m[i].value))

\* no key contains a brace, and no value is empty, contains a brace or occurs
\* inside another key
PlainMapping(m) ==
    /\ \A i \in DOMAIN m : ~HasBrace(PyStr(m[i].key))
    /\ \A i \in DOMAIN m : PyStr(m[i].value) # "" /\ ~HasBrace(PyStr(m[i].value))
    /\ \A i, j \in DOMAIN m : i # j => ~Occurs(PyStr(m[i].value), PyStr(m[j].key))

\* C9 (as claimed): when no replacement value contains a placeholder token of
\* another key, every ordering of the mapping renders the same text.
C9_Original ==
    [][(RenderExisting /\ NoValueHoldsToken(call.replacements)) =>
          \A m \in Orderings(call.replacements) :
             RenderLoop(TemplateText, m, 1) = OutputText]_vars

\* C9 (amended): when no key contains a brace and no replacement value is
\* empty, contains a brace or occurs inside another key, every ordering of the
\* mapping renders the same text.
C9_Amended ==
    [][(RenderExisting /\ PlainMapping(call.replacements)) =>
          \A m \in Orderings(call.replacements) :
             RenderLoop(TemplateText, m, 1) = OutputText]_vars

\* two pairs with plain values were applied to a template holding both tokens
C9_Witness ==
    /\ call.op = "render_tape"
    /\ ret = PyB(TRUE)
    /\ call.template_path # call.output_path
    /\ Len(call.replacements) = 2
    /\ PlainMapping(call.replacements)
    /\ fs[call.template_path].text = "{{Y}}{{X}}"
    /\ fs[call.output_path].text = "4242"

\* the first pair of m whose token starts at place i of s, or 0
FirstMatch(s, m, i) ==
    LET hits == {k \in DOMAIN m : StartsAt(s, Token(m[k].key), i)}
    IN IF hits = {} THEN 0 ELSE CHOOSE k \in hits : \A h \in hits : k <= h

\* one simultaneous replacement of the tokens present in s
RECURSIVE Simultaneous(_, _, _)
Simultaneous(s, m, i) ==
    IF i > Len(s) THEN ""
    ELSE LET k == FirstMatch(s, m, i)
         IN IF k = 0 THEN Ch(s, i) \o Simultaneous(s, m, i + 1)
            ELSE PyStr(m[k].value) \o Simultaneous(s, m, i + Len(Token(m[k].key)))

\* C10 (as claimed): inserted text is never substituted; the output is one
\* simultaneous replacement of the tokens present in the original template.
C10_Original ==
    [][RenderExisting => OutputText = Simultaneous(TemplateText, call.replacements, 1)]_vars

\* C10 (amended): each pair is applied once, in mapping order, to the text the
\* earlier pairs produced, without a second scan: the text a pair inserts is
\* not substituted by that pair, only by later pairs.  The output is one
\* simultaneous replacement of the tokens present in the original template
\* when the mapping has at most one pair, or no key contains a brace and no
\* value is empty, contains a brace or occurs inside another key.
C10_Amended ==
    [][RenderExisting =>
          LET m == call.replacements
              n == Len(m)
          IN /\ n > 0 =>
                   OutputText = Simultaneous(FoldLeft(TemplateText, SubSeq(m, 1, n - 1)),
                                             SubSeq(m, n, n), 1)
             /\ (n <= 1 \/ PlainMapping(m)) => OutputText = Simultaneous(TemplateText, m, 1)]_vars

\* the token that the second pair inserted was left alone by the first pair
C10_Witness ==
    /\ call.op = "render_tape"
    /\ ret = PyB(TRUE)
    /\ call.template_path # call.output_path
    /\ call.replacements = <<[key |-> PyS("Y"), value |-> PyI(42)],
                             [key |-> PyS("X"), value |-> PyS("{{Y}}")]>>
    /\ fs[call.template_path].text = "{{X}}{{Y}}"
    /\ fs[call.output_path].text = "{{Y}}42"

-----------------------------------------------------------------------------
(* Properties of run and of the three wrappers around it.                  *)

ProcessFailed(cmd, code) == [type |-> "CalledProcessError", returncode |-> code, cmd |-> cmd]

\* C4: a run whose child exits non-zero raises the process-failed error, with
\* the command and the exit code, when check is true and raises nothing when
\* check is false; a zero exit raises nothing in either mode.
C4_RunCheck ==
    (call.op = "run" /\ Len(procs) > 0) =>
        LET child == procs[Len(procs)]
        IN /\ (child.returncode # 0 /\ call.check)
                 => exc = ProcessFailed(call.cmd, child.returncode)
           /\ (child.returncode # 0 /\ ~call.check) => exc.type = "none"
           /\ child.returncode = 0 => exc.type = "none"

\* a checked run met exit code 2 and raised
C4_Witness ==
    /\ call.op = "run"
    /\ call.check
    /\ Len(procs) = 1
    /\ procs[1].returncode = 2
    /\ exc = ProcessFailed(<<"wt", "list">>, 2)

\* the command line and working directory a wrapper is to hand to run
WrapperCmd ==
    CASE call.op = "git" -> <<"git">> \o call.args
      [] call.op = "record_vhs" -> <<call.vhs_binary, PathStr(call.tape_path)>>
      [] call.op = "build_wt" -> <<"cargo", "build", "--quiet">>

WrapperCwd ==
    CASE call.op = "git" -> call.cwd
      [] call.op = "record_vhs" -> PyNone
      [] call.op = "build_wt" -> PyP(call.repo_root)

\* C8: git, record_vhs and build_wt each start exactly one child per call, with
\* exit-code checking on and the command line of the wrapper (record_vhs: the
\* binary and the tape path as its only argument; build_wt: the quiet build in
\* repo_root); a non-zero exit reaches the caller as the error run raises, and
\* a zero exit returns None.
C8_Wrappers ==
    [][call.op \in {"git", "record_vhs", "build_wt"} =>
          /\ Len(procs') = Len(procs) + 1
          /\ SubSeq(procs', 1, Len(procs)) = procs
          /\ LET child == procs'[Len(procs')]
             IN /\ child.check
                /\ child.cmd = WrapperCmd
                /\ child.cwd = WrapperCwd
                /\ call.op = "record_vhs" => Len(child.cmd) = 2
                /\ (call.op = "record_vhs" /\ call.tape_path = PathOf("/tmp/out/./demo.tape"))
                      => child.cmd[2] = "/tmp/out/demo.tape"
                /\ child.returncode # 0 => exc' = ProcessFailed(WrapperCmd, child.returncode)
                /\ child.returncode = 0 => exc'.type = "none"
                /\ ret' = PyNone]_vars

\* a git call failed with exit code 1 after a single child
C8_Witness ==
    /\ call.op = "git"
    /\ Len(procs) = 1
    /\ procs[1].cmd = <<"git", "commit", "-m", "x">>
    /\ procs[1].check
    /\ exc = ProcessFailed(<<"git", "commit", "-m", "x">>, 1)

-----------------------------------------------------------------------------
(* Properties of DemoEnv.                                                  *)

ExpectedRoot == Join(denv.out_dir, ".demo-" \o denv.name)

\* C7: whatever was assigned before, a read of a derived path gives the value
\* computed from the attributes as they are now: repo is
\* out_dir / ('.demo-' + name) / 'w' / repo_name, home and root are
\* out_dir / ('.demo-' + name), bare_remote is root / 'remote.git'.
C7_DerivedPaths ==
    (call.op = "DemoEnv" /\ ret.t = "Path") =>
        /\ call.access = "repo" => ret.v = Join(Join(ExpectedRoot, "w"), denv.repo_name)
        /\ call.access = "root" => ret.v = ExpectedRoot
        /\ call.access = "home" => ret.v = ExpectedRoot
        /\ call.access = "work_base" => ret.v = Join(ExpectedRoot, "w")
        /\ call.access = "bare_remote" => ret.v = Join(ExpectedRoot, "remote.git")

\* repo was read on an object whose repo_name is not the default
C7_Witness ==
    /\ call.op = "DemoEnv"
    /\ call.access = "repo"
    /\ denv = DemoEnv("basic", PathOf("/tmp/out"), "acme")
    /\ ret = PyP([root |-> "/", parts |-> <<"tmp", "out", ".demo-basic", "w", "acme">>])

-----------------------------------------------------------------------------
(* Properties of the theme tables and of format_theme_for_vhs.             *)

ThemeKeys(theme) == {theme[i].key : i \in DOMAIN theme}

\* the dict a sequence of pairs stands for: the last pair of a key wins
DictOf(pairs) ==
    [k \in ThemeKeys(pairs) |->
        pairs[CHOOSE i \in DOMAIN pairs :
                 pairs[i].key = k /\ \A j \in DOMAIN pairs : pairs[j].key = k => j <= i].value]

AnsiRoles ==
    {"black", "red", "green", "yellow", "blue", "magenta", "cyan", "white",
     "brightBlack", "brightRed", "brightGreen", "brightYellow", "brightBlue",
     "brightMagenta", "brightCyan", "brightWhite"}
ColourRoles == AnsiRoles \cup {"background", "foreground", "cursor", "selection"}

HexDigits ==
    {"0", "1", "2", "3", "4", "5", "6", "7", "8", "9",
     "a", "b", "c", "d", "e", "f", "A", "B", "C", "D", "E", "F"}

\* '#' followed by exactly six hexadecimal digits
IsHexColour(s) == Len(s) = 7 /\ Ch(s, 1) = "#" /\ \A i \in 2..7 : Ch(s, i) \in HexDigits

IsTable(theme) == \E n \in DOMAIN THEMES : theme = THEMES[n]

\* C5 (as claimed): the two tables have the same 20 keys, the colour roles,
\* and every value is '#' and six hexadecimal digits.
C5_Original ==
    (call.op = "format_theme_for_vhs" /\ IsTable(call.theme)) =>
        /\ \A n \in DOMAIN THEMES : ThemeKeys(THEMES[n]) = ThemeKeys(call.theme)
        /\ ThemeKeys(call.theme) = ColourRoles
        /\ Len(call.theme) = 20
        /\ \A i \in DOMAIN call.theme : IsHexColour(call.theme[i].value)

\* C5 (amended): the two tables have the same 21 keys, 'name' and the 20
\* colour roles, each once, and the value of every colour role is '#' and six
\* hexadecimal digits; the value of 'name' is the theme's title.
C5_Amended ==
    (call.op = "format_theme_for_vhs" /\ IsTable(call.theme)) =>
        /\ \A n \in DOMAIN THEMES : ThemeKeys(THEMES[n]) = ThemeKeys(call.theme)
        /\ ThemeKeys(call.theme) = ColourRoles \cup {"name"}
        /\ Len(call.theme) = 21
        /\ Cardinality(ThemeKeys(call.theme)) = 21
        /\ \A i \in DOMAIN call.theme :
              call.theme[i].key # "name" => IsHexColour(call.theme[i].value)
        /\ \E i \in DOMAIN call.theme :
              call.theme[i].key = "name" /\ ~IsHexColour(call.theme[i].value)

\* the dark table was looked up and formatted
C5_Witness ==
    /\ call.op = "format_theme_for_vhs"
    /\ ret.t = "str"
    /\ call.theme = THEMES["dark"]
    /\ DictOf(call.theme)["selection"] = "#422006"

\* json.loads on an object of strings: the pairs read, or ok = FALSE
ParseFail == [ok |-> FALSE, val |-> "", next |-> 0]

RECURSIVE SkipSpace(_, _)
SkipSpace(s, i) == IF i <= Len(s) /\ Ch(s, i) \in {" ", "\n"} THEN SkipSpace(s, i + 1) ELSE i

\* the string whose opening quote is before place i
RECURSIVE ScanString(_, _, _)
ScanString(s, i, acc) ==
    IF i > Len(s) THEN ParseFail
    ELSE LET c == Ch(s, i)
         IN IF c = "\"" THEN [ok |-> TRUE, val |-> acc, next |-> i + 1]
            ELSE IF c = "\n" THEN ParseFail
            ELSE IF c # "\\" THEN ScanString(s, i + 1, acc \o c)
            ELSE IF i + 1 > Len(s) THEN ParseFail
            ELSE LET d == Ch(s, i + 1)
                 IN IF d \in {"\"", "\\", "/"} THEN ScanString(s, i + 2, acc \o d)
                    ELSE IF d = "n" THEN ScanString(s, i + 2, acc \o "\n")
                    ELSE ParseFail

ParseString(s, i) ==
    IF i <= Len(s) /\ Ch(s, i) = "\"" THEN ScanString(s, i + 1, "") ELSE ParseFail

\* the members from place i on, up to and including the closing brace
RECURSIVE ParseMembers(_, _, _)
ParseMembers(s, i, acc) ==
    LET k == ParseString(s, SkipSpace(s, i))
        colon == SkipSpace(s, k.next)
        v == ParseString(s, SkipSpace(s, colon + 1))
        after == SkipSpace(s, v.next)
        pairs == Append(acc, [key |-> k.val, value |-> v.val])
    IN IF ~k.ok THEN [ok |-> FALSE, pairs |-> <<>>]
       ELSE IF colon > Len(s) \/ Ch(s, colon) # ":" THEN [ok |-> FALSE, pairs |-> <<>>]
       ELSE IF ~v.ok \/ after > Len(s) THEN [ok |-> FALSE, pairs |-> <<>>]
       ELSE IF Ch(s, after) = "," THEN ParseMembers(s, after + 1, pairs)
       ELSE IF Ch(s, after) = "}" /\ SkipSpace(s, after + 1) > Len(s)
            THEN [ok |-> TRUE, pairs |-> pairs]
       ELSE [ok |-> FALSE, pairs |-> <<>>]

JsonLoads(s) ==
    LET open == SkipSpace(s, 1)
        first == SkipSpace(s, open + 1)
    IN IF open > Len(s) \/ Ch(s, open) # "{" THEN [ok |-> FALSE, pairs |-> <<>>]
       ELSE IF first <= Len(s) /\ Ch(s, first) = "}" /\ SkipSpace(s, first + 1) > Len(s)
            THEN [ok |-> TRUE, pairs |-> <<>>]
       ELSE ParseMembers(s, open + 1, <<>>)

Formatted == call.op = "format_theme_for_vhs" /\ ret.t = "str"

\* C6 (as claimed): the string format_theme_for_vhs returns for the light
\* theme parses back to the original 20 key/value pairs, none added or lost.
C6_Original ==
    (Formatted /\ call.theme = THEMES["light"]) =>
        LET back == JsonLoads(ret.v)
        IN /\ back.ok
           /\ DictOf(back.pairs) = DictOf(call.theme)
           /\ Cardinality(DOMAIN DictOf(back.pairs)) = 20

\* C6 (amended): the string format_theme_for_vhs returns for the light theme
\* parses back to the original 21 key/value pairs ('name' and the 20 colour
\* roles), none added or lost.
C6_Amended ==
    (Formatted /\ call.theme = THEMES["light"]) =>
        LET back == JsonLoads(ret.v)
        IN /\ back.ok
           /\ DictOf(back.pairs) = DictOf(call.theme)
           /\ Len(back.pairs) = 21
           /\ Cardinality(DOMAIN DictOf(back.pairs)) = 21

\* the light theme has been formatted, and the text starts as json.dumps writes it
C6_Witness ==
    /\ Formatted
    /\ call.theme = THEMES["light"]
    /\ StartsAt(ret.v, "{\"name\": \"Warm Gold Light\", \"black\": \"#8c959f\", ", 1)
    /\ Len(ret.v) = 488
====
